---- MODULE Spec2Model ----
(***************************************************************************)
(* State-machine model of the KVLCC2 tanker (MMG_KVLCC2.py) and of the     *)
(* HHOS_Env environment that steers it (HHOS_Env.py).                      *)
(*                                                                         *)
(* Units.  Angles of the rudder are counted in steps of 2.5 degrees, so    *)
(* dtr(10) is 4 and dtr(2.5) is 1.  Headings are counted in steps of       *)
(* 2*pi/lidar_n_beams, the spacing of lidar_beam_angles, so one turn is    *)
(* lidar_n_beams steps.  Positions are points of a small integer grid of   *)
(* the projected (north, east) frame.  Velocities are multiples of         *)
(* delta_t, so that (nu - nu_old) / delta_t is exact.  Sample distances    *)
(* of the sensor are counted in units of lidar_range/(lidar_n_beams *      *)
(* DotGap).  All arithmetic is exact (no floating-point rounding).         *)
(***************************************************************************)
EXTENDS Integers, Sequences, FiniteSets, TLC

VARIABLES
    OS,           \* HHOS_Env.OS: the KVLCC2 object [action, rud_angle, eta, nu, nu_dot, nu_old]
    DesiredPath,  \* HHOS_Env.DesiredPath: [n_wps, north, east]
    DepthData,    \* HHOS_Env.DepthData as seen from the vessel: [bearing][sample] -> depth
    wp1_idx, wp1_N, wp1_E,   \* HHOS_Env.wp1_*
    wp2_idx, wp2_N, wp2_E,   \* HHOS_Env.wp2_*
    step_cnt,     \* HHOS_Env.step_cnt
    sim_t,        \* HHOS_Env.sim_t
    lidar,        \* value returned by the last _sense_LiDAR call: [dists, lat_lon]
    ret,          \* outcome of the last call: [op, exc]
    trip,         \* observer of the rudder commands: [start, ups, downs, clamped]
    state,        \* HHOS_Env.state: the observation
    fl,           \* observer: the (fl_psi, fl_vel) the last integration gave to _mmg_dynamics
    WindData,     \* HHOS_Env.WindData: [position] -> [speed, angle]
    CurrentData,  \* HHOS_Env.CurrentData: [position] -> [speed, angle]
    envs,         \* the attributes of several HHOS_Env objects: [instance] -> record
    nps,          \* KVLCC2.nps: propeller revolutions per second
    deriv         \* observer: the last evaluation of _mmg_dynamics, [y, fl, o, out]

vars == <<OS, DesiredPath, DepthData, wp1_idx, wp1_N, wp1_E, wp2_idx, wp2_N, wp2_E,
          step_cnt, sim_t, lidar, ret, trip, state, fl, WindData, CurrentData, envs,
          nps, deriv>>

\* what the methods of one vessel and one environment never assign
untouched == <<WindData, CurrentData, envs, nps, deriv>>

wps == <<wp1_idx, wp1_N, wp1_E, wp2_idx, wp2_N, wp2_E>>

----------------------------------------------------------------------------
(* Bounds of the model *)

\* largest north coordinate of the grid of positions
MaxCoord == 2

\* largest east coordinate of the grid of positions
MaxEast == 1

\* largest number of waypoints of a desired path
MaxWps == 3

\* velocities produced by the solver are delta_t * (0..MaxNu)
MaxNu == 1

\* largest number of calls made on one environment object
MaxCalls == 2

\* largest advance ratio of the propeller, in tenths
MaxJ == 12

\* number of beams of the sensor (25 in the source), also the number of heading steps per turn
lidar_n_beams == 3

\* distance units between two consecutive sample points of a beam
DotGap == 2

----------------------------------------------------------------------------
(* Program constants *)

\* HHOS_Env.delta_t = 3.0
delta_t == 3

\* KVLCC2.rud_angle_max = dtr(10), in steps of 2.5 degrees
rud_angle_max == 4

\* dtr(2.5), in steps of 2.5 degrees
rud_rate == 1

\* KVLCC2.rud_angle_inc = dtr(2.5) * delta_t
rud_angle_inc == rud_rate * delta_t

\* HHOS_Env.sense_depth = 15
sense_depth == 15

\* one full turn, 2*pi, in heading steps
TwoPi == lidar_n_beams

\* HHOS_Env.lidar_range
lidar_range == lidar_n_beams * DotGap

\* the attribute OS before any assignment to it
NoOS == [absent |-> TRUE]

\* an attribute that has not been assigned yet
NoValue == <<>>

\* KVLCC2.nps = 4.0
nps_init == 4

----------------------------------------------------------------------------
(* Input sets *)

Coords == 0..MaxCoord

Easts == 0..MaxEast

\* headings as a caller or the solver may produce them: not normalised
PsiRaw == (0 - 1)..TwoPi

NuVals == {<<delta_t * k, 0, 0 - delta_t * k>> : k \in 0..MaxNu}

\* action values a caller may pass: the three valid ones and two invalid ones
ActionInputs == (0 - 1)..3

\* range(3)
range3 == 0..2

----------------------------------------------------------------------------
(* Helpers of the missing modules FossenFnc / VesselFnc / HHOS_Fnc *)

\* angle_to_2pi: wraps an angle into [0, 2*pi)
angle_to_2pi(x) == x % TwoPi

\* np.clip(x, lo, hi)
np_clip(x, lo, hi) == IF x < lo THEN lo ELSE IF x > hi THEN hi ELSE x

----------------------------------------------------------------------------
(* KVLCC2 (MMG_KVLCC2.py) *)

\* KVLCC2.__init__: the fields of a new vessel
KVLCC2(N_init, E_init, psi_init, nu_init) ==
    [action    |-> 0,
     rud_angle |-> 0,
     eta       |-> <<N_init, E_init, psi_init>>,
     nu        |-> nu_init,
     nu_dot    |-> <<0, 0, 0>>,
     nu_old    |-> NoValue]

\* what solve_ivp may return at t = delta_t: sol.y[:, 0], finite values; the heading
\* is not normalised, the vessel moves along the north axis
SolverOutputs == [N : Coords, E : {0}, psi : PsiRaw, nu : NuVals]

\* (nu - nu_old) / delta_t, componentwise
nu_rate(new, old) == [i \in 1..3 |-> (new[i] - old[i]) \div delta_t]

\* a mutated _upd_dynamics: the heading is stored as the solver returns it
upd_dynamics_result_nowrap(os, y) ==
    [os EXCEPT !.nu_old = os.nu,
               !.eta    = <<y.N, y.E, y.psi>>,
               !.nu     = y.nu,
               !.nu_dot = nu_rate(y.nu, os.nu)]

\* KVLCC2._upd_dynamics with y the solver's result: the vessel after the call
upd_dynamics_result(os, y) ==
    [os EXCEPT !.nu_old = os.nu,
               !.eta    = <<y.N, y.E, angle_to_2pi(y.psi)>>,
               !.nu     = y.nu,
               !.nu_dot = nu_rate(y.nu, os.nu)]

\* a mutated _control: the angle is not clipped
control_rud_unclipped(rud, a) ==
    IF a = 1 THEN rud + rud_angle_inc
    ELSE IF a = 2 THEN rud - rud_angle_inc
    ELSE rud

\* a mutated _control: actions 1 and 2 are swapped
control_rud_swapped(rud, a) ==
    np_clip(IF a = 1 THEN rud - rud_angle_inc
            ELSE IF a = 2 THEN rud + rud_angle_inc
            ELSE rud,
            0 - rud_angle_max, rud_angle_max)

\* a mutated _control: action 2 undoes one rate step only
control_rud_skewed(rud, a) ==
    np_clip(IF a = 1 THEN rud + rud_angle_inc
            ELSE IF a = 2 THEN rud - rud_rate
            ELSE rud,
            0 - rud_angle_max, rud_angle_max)

\* KVLCC2._control, lines 357-365: the rudder angle after a valid action
control_rud(rud, a) ==
    np_clip(IF a = 0 THEN rud
            ELSE IF a = 1 THEN rud + rud_angle_inc
            ELSE IF a = 2 THEN rud - rud_angle_inc
            ELSE rud,
            0 - rud_angle_max, rud_angle_max)

\* KVLCC2._control for a in range(3): the vessel after the call
control_result(os, a) ==
    [os EXCEPT !.action = a, !.rud_angle = control_rud(os.rud_angle, a)]

\* the parameters of KVLCC2._upd_dynamics besides self (line 318)
upd_dynamics_params == {}

\* KVLCC2._upd_dynamics, line 329: args = (0.0, 0.0), the fl_psi and fl_vel that
\* solve_ivp hands to _mmg_dynamics
solver_args == [fl_psi |-> 0, fl_vel |-> 0]

----------------------------------------------------------------------------
(* Observer of the rudder commands: the current run of k times action 1       *)
(* followed by k times action 2, its starting angle, whether np.clip changed a *)
(* value during the run, and whether it changed the value of the last call.    *)

VoidTrip == [start |-> 0, ups |-> 0, downs |-> 0, clamped |-> TRUE]

FreshTrip(rud) == [start |-> rud, ups |-> 0, downs |-> 0, clamped |-> FALSE, cut |-> FALSE]

trip_next(t, old, a, new) ==
    LET raw  == IF a = 1 THEN old + rud_angle_inc ELSE old - rud_angle_inc
        cut  == a # 0 /\ (raw < 0 - rud_angle_max \/ raw > rud_angle_max)
        cont == IF a = 1
                THEN IF (~t.clamped) /\ t.downs = 0
                     THEN [t EXCEPT !.ups = @ + 1]
                     ELSE [start |-> old, ups |-> 1, downs |-> 0, clamped |-> FALSE]
                ELSE [t EXCEPT !.downs = @ + 1]
        run  == IF a = 0 THEN FreshTrip(new)
                ELSE IF a = 2 /\ (t.clamped \/ t.ups <= t.downs) THEN FreshTrip(new)
                ELSE IF cut THEN VoidTrip
                ELSE cont
    IN  [start |-> run.start, ups |-> run.ups, downs |-> run.downs,
         clamped |-> run.clamped, cut |-> cut]

----------------------------------------------------------------------------
(* HHOS_Env (HHOS_Env.py) *)

\* python's 0-based indexing of an array
At(arr, i) == arr[i + 1]

\* the active segment as one record
WpRec == [wp1_idx |-> wp1_idx, wp1_N |-> wp1_N, wp1_E |-> wp1_E,
          wp2_idx |-> wp2_idx, wp2_N |-> wp2_N, wp2_E |-> wp2_E]

\* HHOS_Fnc.switch_wp: the projection of the position onto the segment wp1 -> wp2
\* strictly exceeds the segment's length, i.e. the foot of the perpendicular lies
\* beyond wp2
switch_wp(w1N, w1E, w2N, w2E, aN, aE) ==
    (aN - w2N) * (w2N - w1N) + (aE - w2E) * (w2E - w1E) > 0

\* the segment shifted by one waypoint, the index kept inside the path
shifted(w, path) ==
    LET nxt == IF w.wp2_idx + 1 > path.n_wps - 1 THEN path.n_wps - 1 ELSE w.wp2_idx + 1
    IN  [wp1_idx |-> w.wp1_idx + 1,
         wp1_N   |-> w.wp2_N,
         wp1_E   |-> w.wp2_E,
         wp2_idx |-> nxt,
         wp2_N   |-> At(path.north, nxt),
         wp2_E   |-> At(path.east, nxt)]

\* a mutated _update_wps: the end of the path is tested on wp1_idx
update_wps_result_wp1(w, path, os) ==
    LET switch == switch_wp(w.wp1_N, w.wp1_E, w.wp2_N, w.wp2_E, os.eta[1], os.eta[2])
    IN  IF switch /\ w.wp1_idx # path.n_wps - 1 THEN shifted(w, path) ELSE w

\* a mutated _update_wps: standing on wp2 counts as having passed it
update_wps_result_at_wp2(w, path, os) ==
    LET switch == switch_wp(w.wp1_N, w.wp1_E, w.wp2_N, w.wp2_E, os.eta[1], os.eta[2])
        at_wp2 == os.eta[1] = w.wp2_N /\ os.eta[2] = w.wp2_E
    IN  IF (switch \/ at_wp2) /\ w.wp2_idx # path.n_wps - 1 THEN shifted(w, path) ELSE w

\* a mutated _update_wps: the result of switch_wp is not used
update_wps_result_eager(w, path, os) ==
    IF w.wp2_idx # path.n_wps - 1 THEN shifted(w, path) ELSE w

\* HHOS_Env._update_wps: the segment after the call
update_wps_result(w, path, os) ==
    LET switch == switch_wp(w.wp1_N, w.wp1_E, w.wp2_N, w.wp2_E, os.eta[1], os.eta[2])
    IN  IF switch /\ w.wp2_idx # path.n_wps - 1
        THEN [wp1_idx |-> w.wp1_idx + 1,
              wp1_N   |-> w.wp2_N,
              wp1_E   |-> w.wp2_E,
              wp2_idx |-> w.wp2_idx + 1,
              wp2_N   |-> At(path.north, w.wp2_idx + 1),
              wp2_E   |-> At(path.east, w.wp2_idx + 1)]
        ELSE w

\* HHOS_Env.n_dots_per_beam = 10
n_dots_per_beam == 10

\* HHOS_Env.d_dots_per_beam = np.linspace(0, lidar_range, lidar_n_beams + 1)[1:]
d_dots_per_beam == [k \in 1..lidar_n_beams |-> k * DotGap]

\* HHOS_Env.lidar_beam_angles = np.linspace(0, 2*pi, lidar_n_beams, endpoint=False)
lidar_beam_angles == [i \in 1..lidar_n_beams |-> i - 1]

\* the point at distance dist on the bearing angle from the vessel:
\* xy_from_polar followed by to_latlon
dot_lat_lon(angle, dist) == [angle |-> angle, dist |-> dist]

\* HHOS_Env._depth_at_latlon at a sample point of a beam
depth_at(depth, angle, k) == depth[angle][k]

\* a mutated threshold test: a depth equal to sense_depth is not an obstacle
is_obstacle_strict(depth_dot) == depth_dot < sense_depth

\* HHOS_Env._sense_LiDAR, line 343: the water at the sample point is too shallow
is_obstacle(depth_dot) == depth_dot <= sense_depth

\* a mutated inner loop: after a hit the test on lidar_range of line 347 is still
\* made, so that a hit at the last sample appends its point twice
RECURSIVE scan_beam_no_break(_, _, _)
scan_beam_no_break(depth, angle, k) ==
    IF k > Len(d_dots_per_beam)
    THEN [dist |-> lidar_range, pts |-> <<>>]
    ELSE LET dist == d_dots_per_beam[k]
             pt   == dot_lat_lon(angle, dist)
             last == IF dist = lidar_range THEN <<pt>> ELSE <<>>
         IN  IF is_obstacle(depth_at(depth, angle, k))
             THEN [dist |-> dist, pts |-> <<pt>> \o last]
             ELSE LET rest == scan_beam_no_break(depth, angle, k + 1)
                  IN  [dist |-> rest.dist, pts |-> last \o rest.pts]

\* HHOS_Env._sense_LiDAR, the inner loop from sample k on: the distance stored for
\* the beam and the points appended to out_lat_lon
RECURSIVE scan_beam(_, _, _)
scan_beam(depth, angle, k) ==
    IF k > Len(d_dots_per_beam)
    THEN [dist |-> lidar_range, pts |-> <<>>]
    ELSE LET dist == d_dots_per_beam[k]
             pt   == dot_lat_lon(angle, dist)
         IN  IF is_obstacle(depth_at(depth, angle, k))
             THEN [dist |-> dist, pts |-> <<pt>>]
             ELSE LET rest == scan_beam(depth, angle, k + 1)
                  IN  [dist |-> rest.dist,
                       pts  |-> (IF dist = lidar_range THEN <<pt>> ELSE <<>>) \o rest.pts]

\* HHOS_Env._sense_LiDAR, the outer loop from beam i on (1-based)
RECURSIVE sense_from(_, _, _)
sense_from(depth, head0, i) ==
    IF i > Len(lidar_beam_angles)
    THEN [dists |-> <<>>, lat_lon |-> <<>>]
    ELSE LET angle == angle_to_2pi(lidar_beam_angles[i] + head0)
             beam  == scan_beam(depth, angle, 1)
             rest  == sense_from(depth, head0, i + 1)
         IN  [dists   |-> <<beam.dist>> \o rest.dists,
              lat_lon |-> beam.pts \o rest.lat_lon]

\* HHOS_Env._sense_LiDAR: (out_dists, out_lat_lon)
sense_LiDAR_result(os, depth) == sense_from(depth, os.eta[3], 1)

\* KVLCC2.Lpp = 320.0 (m)
Lpp == 320

\* 1000 * ln(x) for x = 1, 2, ..., rounded down
ln_table == <<0, 693, 1098, 1386, 1609, 1791, 1945, 2079, 2197, 2302, 2397, 2484,
              2564, 2639, 2708, 2772, 2833, 2890, 2944, 2995, 3044, 3091, 3135, 3178,
              3218, 3258, 3295, 3332, 3367, 3401>>

\* 1000 * np.log(x)
np_log(x) == ln_table[x]

\* a numpy division by a fixed divisor, kept exact as the fraction num / den; den is
\* the divisor as the source writes it
quot(x, d) == [num |-> x, den |-> d]

\* a mutated closeness: the distance is not shifted by one inside the logarithm
closeness_unshifted(dist) ==
    np_clip(1000 - (1000 * np_log(dist)) \div np_log(lidar_range + 1), 0, 1000)

\* HHOS_Env._get_closeness_from_lidar for one distance, in thousandths:
\* np.clip(1 - np.log(dist + 1) / np.log(lidar_range + 1), 0, 1)
closeness(dist) ==
    np_clip(1000 - (1000 * np_log(dist + 1)) \div np_log(lidar_range + 1), 0, 1000)

\* HHOS_Env._get_closeness_from_lidar on the array of distances
get_closeness_from_lidar(dists) == [i \in 1..Len(dists) |-> closeness(dists[i])]

\* HHOS_Fnc.VFG: cross-track error and desired course, functions of the segment
\* wp1 -> wp2 and of the position (the gain VFG_K is fixed); each is kept as the
\* term that names its arguments
VFG(N1, E1, N2, E2, NA, EA) ==
    [ye             |-> [of |-> "ye", wp1 |-> <<N1, E1>>, wp2 |-> <<N2, E2>>,
                         at |-> <<NA, EA>>],
     desired_course |-> [of |-> "desired_course", wp1 |-> <<N1, E1>>, wp2 |-> <<N2, E2>>,
                         at |-> <<NA, EA>>]]

\* HHOS_Env.__init__, line 82: the size of the observation space
obs_size == 7 + lidar_n_beams

\* a mutated _set_state: yaw acceleration and rudder come before the velocities
set_state_result_cmp2_first(os, w, depth) ==
    LET cmp1        == <<quot(os.nu[1], "7.0"), quot(os.nu[2], "0.7"),
                         quot(os.nu[3], "0.004")>>
        cmp2        == <<quot(os.nu_dot[3], "8e-5"),
                         quot(os.rud_angle, rud_angle_max)>>
        g           == VFG(w.wp1_N, w.wp1_E, w.wp2_N, w.wp2_E, os.eta[1], os.eta[2])
        state_path  == <<quot(g.ye, Lpp), quot(g.desired_course, "math.pi")>>
        state_LiDAR == get_closeness_from_lidar(sense_LiDAR_result(os, depth).dists)
    IN  cmp2 \o cmp1 \o state_path \o state_LiDAR

\* HHOS_Env._set_state: the observation assembled from the vessel os, the segment w
\* and the depth field
set_state_result(os, w, depth) ==
    LET N0          == os.eta[1]
        E0          == os.eta[2]
        cmp1        == <<quot(os.nu[1], "7.0"), quot(os.nu[2], "0.7"),
                         quot(os.nu[3], "0.004")>>
        cmp2        == <<quot(os.nu_dot[3], "8e-5"),
                         quot(os.rud_angle, rud_angle_max)>>
        state_OS    == cmp1 \o cmp2
        g           == VFG(w.wp1_N, w.wp1_E, w.wp2_N, w.wp2_E, N0, E0)
        state_path  == <<quot(g.ye, Lpp), quot(g.desired_course, "math.pi")>>
        state_LiDAR == get_closeness_from_lidar(sense_LiDAR_result(os, depth).dists)
    IN  state_OS \o state_path \o state_LiDAR

\* the keyword arguments step passes to OS._upd_dynamics (lines 453-454)
step_upd_kwargs == {"V_w", "beta_w", "V_c", "beta_c", "H",
                    "beta_wave", "eta_wave", "T_0_wave", "lambda_wave"}

\* a mutated assertion: one value too many is accepted
valid_action_loose(a) == a \in 0..3

\* KVLCC2._control, line 351: the assertion on the action
valid_action(a) == a \in range3

\* python binds keyword arguments to parameters of the same names only
binds(kwargs, params) == kwargs \subseteq params

----------------------------------------------------------------------------
(* KVLCC2._mmg_dynamics (MMG_KVLCC2.py, lines 130-315)                        *)
(*                                                                            *)
(* The derivative works on real numbers.  The model keeps of every real       *)
(* quantity its sign, one of "neg", "zero", "pos", or "any" where the signs   *)
(* of the summands leave the sign of a sum open.  A product is zero exactly   *)
(* when a factor is zero.  The wake fraction, the advance ratio and the       *)
(* thrust coefficient are also kept as scaled integers, because the signs of  *)
(* what is computed from them depend on their size.                           *)

\* the coefficients of kvlcc2_full (lines 23-77): x_P, D_p and d (draft) in
\* hundredths of a metre, x_G in tenths, C_2 in tenths, w_P0 in hundredths, k_0, k_1
\* and k_2 in ten-thousandths, rho in whole units, the others in thousandths
x_G == 112
x_P == -16000
D_p == 986
C_1 == 2000
C_2_plus == 16
C_2_minus == 11
w_P0 == 35
k_0 == 2931
k_1 == -2753
k_2 == -1359
l_R == -710
gamma_R_plus == 640
gamma_R_minus == 395
eta_param == 626
kappa == 500
epsilon == 1090
A_R == 112500
f_alpha == 2747
rho == 1000
t_R == 387
t_P == 220
a_H == 312
x_H_dash == -464
draft == 2080
m_x_dash == 22
m_y_dash == 223
J_z_dash == 11
R_0_dash == 22
X_vv_dash == -40
X_vr_dash == 2
X_rr_dash == 11
X_vvvv_dash == 771
Y_v_dash == -315
Y_r_dash == 83
Y_vvv_dash == -1607
Y_vvr_dash == 379
Y_vrr_dash == -391
Y_rrr_dash == 8
N_v_dash == -137
N_r_dash == -49
N_vvv_dash == -30
N_vvr_dash == -294
N_vrr_dash == 55
N_rrr_dash == -13

\* np.pi, in ten-thousandths
np_pi == 31416

\* the sign of an integer
sgn(n) == IF n < 0 THEN "neg" ELSE IF n = 0 THEN "zero" ELSE "pos"

\* the sign of -a
minus(a) == IF a = "neg" THEN "pos" ELSE IF a = "pos" THEN "neg" ELSE a

\* the sign of a * b, and of a / b where b is not zero
times(a, b) ==
    IF a = "zero" \/ b = "zero" THEN "zero"
    ELSE IF a = "any" \/ b = "any" THEN "any"
    ELSE IF a = b THEN "pos" ELSE "neg"

\* the sign of a + b
plus(a, b) ==
    IF a = "zero" THEN b
    ELSE IF b = "zero" THEN a
    ELSE IF a = b THEN a ELSE "any"

\* the sign of a sum of several terms
RECURSIVE total(_)
total(terms) == IF terms = <<>> THEN "zero" ELSE plus(Head(terms), total(Tail(terms)))

\* the sign of a product of several factors
RECURSIVE product(_)
product(factors) ==
    IF factors = <<>> THEN "pos" ELSE times(Head(factors), product(Tail(factors)))

\* the sign of a ** 2
squared(a) == IF a = "zero" THEN "zero" ELSE "pos"

\* the mass m = 312_600 * 1000 (line 27) and the moment of inertia I_zG = 2e12
\* (line 74) are positive; so are the added masses of lines 289-291
mass == "pos"
I_zG == "pos"
m_x == product(<<sgn(m_x_dash), "pos", sgn(rho), squared(sgn(Lpp)), sgn(draft)>>)
m_y == product(<<sgn(m_y_dash), "pos", sgn(rho), squared(sgn(Lpp)), sgn(draft)>>)
J_z == product(<<sgn(J_z_dash), "pos", sgn(rho), squared(squared(sgn(Lpp))), sgn(draft)>>)

\* KVLCC2._vm_from_v_r, in tenths
vm_from_v_r(v, r) == 10 * v - x_G * r

\* math.sin and math.cos of a rudder angle, which lies within 10 degrees of 0
sin_rud(rud) == sgn(rud)
cos_rud(rud) == "pos"

\* np.cos and np.sin of a heading of psi steps of 2*pi/TwoPi
cos_psi(psi) ==
    LET k == psi % TwoPi
    IN  IF 4 * k = TwoPi \/ 4 * k = 3 * TwoPi THEN "zero"
        ELSE IF 4 * k < TwoPi \/ 4 * k > 3 * TwoPi THEN "pos" ELSE "neg"
sin_psi(psi) ==
    LET k == psi % TwoPi
    IN  IF k = 0 \/ 2 * k = TwoPi THEN "zero"
        ELSE IF 2 * k < TwoPi THEN "pos" ELSE "neg"

\* math.atan2(y, x): the sign of y, and for y = 0 the angle 0 when x >= 0 and a half
\* turn when x < 0, of sign half (the sign of the zero that y is)
atan2(y, x, half) == IF y # "zero" THEN y ELSE IF x = "neg" THEN half ELSE "zero"

\* a sign the summands leave open is the one the real numbers give
resolve(open, given) == IF open = "any" THEN given ELSE open

\* line 147: U == 0.0, for U = math.sqrt(u**2 + vm**2) with u2 = u**2 + vm**2
U_is_zero_never(u2) == FALSE

U_is_zero(u2) == u2 = 0

\* lines 215-222: X_H
X_H_unscaled(U, v_dash, r_dash) ==
    product(<<"pos", sgn(rho), sgn(Lpp), sgn(draft),
              total(<<minus(sgn(R_0_dash)),
                      times(sgn(X_vv_dash), squared(v_dash)),
                      product(<<sgn(X_vr_dash), v_dash, r_dash>>),
                      times(sgn(X_rr_dash), squared(r_dash)),
                      times(sgn(X_vvvv_dash), squared(squared(v_dash)))>>)>>)

X_H(U, v_dash, r_dash) ==
    product(<<"pos", sgn(rho), sgn(Lpp), sgn(draft), squared(U),
              total(<<minus(sgn(R_0_dash)),
                      times(sgn(X_vv_dash), squared(v_dash)),
                      product(<<sgn(X_vr_dash), v_dash, r_dash>>),
                      times(sgn(X_rr_dash), squared(r_dash)),
                      times(sgn(X_vvvv_dash), squared(squared(v_dash)))>>)>>)

\* lines 231-239: Y_H
Y_H(U, v_dash, r_dash) ==
    product(<<"pos", sgn(rho), sgn(Lpp), sgn(draft), squared(U),
              total(<<times(sgn(Y_v_dash), v_dash),
                      times(sgn(Y_r_dash), r_dash),
                      times(sgn(Y_vvv_dash), times(squared(v_dash), v_dash)),
                      product(<<sgn(Y_vvr_dash), squared(v_dash), r_dash>>),
                      product(<<sgn(Y_vrr_dash), v_dash, squared(r_dash)>>),
                      times(sgn(Y_rrr_dash), times(squared(r_dash), r_dash))>>)>>)

\* lines 245-253: N_H
N_H(U, v_dash, r_dash) ==
    product(<<"pos", sgn(rho), squared(sgn(Lpp)), sgn(draft), squared(U),
              total(<<times(sgn(N_v_dash), v_dash),
                      times(sgn(N_r_dash), r_dash),
                      times(sgn(N_vvv_dash), times(squared(v_dash), v_dash)),
                      product(<<sgn(N_vvr_dash), squared(v_dash), r_dash>>),
                      product(<<sgn(N_vrr_dash), v_dash, squared(r_dash)>>),
                      times(sgn(N_rrr_dash), times(squared(r_dash), r_dash))>>)>>)

\* line 160: w_P, in ten-thousandths; e is math.exp(-C_1 * abs(beta_P)) in tenths
w_P_of(e, C_2) == 0 - (10000 + (100 - e * (C_2 - 10)) * (100 - w_P0)) + 10000

\* line 171: K_T in millionths, for J in tenths
K_T_of(J) == k_0 * 100 + (k_1 * J) * 10 + k_2 * J * J

\* line 198: the sign of 1.0 + 8.0 * K_T / (np.pi * J**2), for J in tenths, not 0
thrust_root_arg(J) == sgn(np_pi * J * J + 8 * K_T_of(J))

\* line 204 and lines 208-209: math.sin(alpha_R) for alpha_R = rud_angle - atan2(v_R, u_R)
sin_alpha_R(rud, v_R, u_R) ==
    IF v_R = "zero"
    THEN IF u_R = "neg" THEN minus(sin_rud(rud)) ELSE sin_rud(rud)
    ELSE IF rud = 0 THEN minus(v_R) ELSE "any"

\* KVLCC2._mmg_dynamics(t, y, fl_psi, fl_vel) of a vessel with rudder angle rud and
\* propeller rate prop; y = [N, E, psi, u, v, r] in whole units.  reals gives what the
\* whole units leave open: the signs of beta_P and beta_R where beta and r_dash pull
\* in opposite directions, math.exp(...) of line 160 in tenths, abs(J) in tenths.
\* The result holds the exception raised ("None" for a return), the divisors of the
\* divisions carried out before the current forces, and the signs of the terms.
mmg_dynamics_result(rud, prop, y, fl_psi, fl_vel, reals) ==
    LET psi == y[3]
        u == y[4]
        v == y[5]
        r == y[6]
        vm == vm_from_v_r(v, r)
        u2 == (10 * u) * (10 * u) + vm * vm
        U == IF u2 = 0 THEN "zero" ELSE "pos"
        still == U_is_zero(u2)
        \* -vm is -0.0 for vm = 0.0, and math.atan2(-0.0, u) is -pi for u < 0
        beta == IF still THEN "zero" ELSE atan2(minus(sgn(vm)), sgn(u), "neg")
        v_dash == IF still THEN "zero" ELSE times(sgn(vm), U)
        r_dash == IF still THEN "zero" ELSE times(times(sgn(r), sgn(Lpp)), U)
        by_U == IF still THEN <<>> ELSE <<U, U>>
        beta_P == resolve(plus(beta, minus(product(<<sgn(x_P), sgn(Lpp), r_dash>>))),
                          reals.beta_P)
        C_2 == IF beta_P \in {"zero", "pos"} THEN C_2_plus ELSE C_2_minus
        e == IF beta_P = "zero" THEN 10 ELSE reals.exp
        w_P == w_P_of(e, C_2)
        by_nps == IF prop = 0 THEN <<>> ELSE <<sgn(prop * D_p)>>
        J_sign == IF prop = 0 THEN "zero"
                  ELSE times(times(sgn(10000 - w_P), sgn(u)), sgn(prop * D_p))
        J == IF J_sign = "zero" THEN 0
             ELSE IF J_sign = "pos" THEN reals.J ELSE 0 - reals.J
        K_T == sgn(K_T_of(J))
        beta_R == resolve(plus(beta, minus(times(sgn(l_R), r_dash))), reals.beta_R)
        gamma_R == IF beta_R = "neg" THEN gamma_R_minus ELSE gamma_R_plus
        v_R == product(<<U, sgn(gamma_R), beta_R>>)
        by_J == IF J = 0 THEN <<sgn(np_pi)>> ELSE <<sgn(np_pi * J * J)>>
        root_arg == IF J = 0 THEN "pos" ELSE thrust_root_arg(J)
        u_R == IF J = 0
               THEN times(sgn(eta_param),
                          squared(product(<<sgn(kappa), sgn(epsilon), "pos", sgn(k_0),
                                            squared(sgn(prop)),
                                            squared(squared(sgn(D_p)))>>)))
               \* the outer root of lines 196-199 is of eta_param * (...)**2 plus
               \* 1 - eta_param, which is positive
               ELSE product(<<sgn(u), sgn(10000 - w_P), sgn(epsilon),
                              sgn(1000 - eta_param)>>)
        U_R == plus(squared(u_R), squared(v_R))
        F_N == product(<<"pos", sgn(A_R), sgn(rho), sgn(f_alpha), squared(U_R),
                         sin_alpha_R(rud, v_R, u_R)>>)
        XH == X_H(U, v_dash, r_dash)
        XR == minus(product(<<sgn(1000 - t_R), F_N, sin_rud(rud)>>))
        XP == product(<<sgn(1000 - t_P), sgn(rho), K_T, squared(sgn(prop)),
                        squared(squared(sgn(D_p)))>>)
        YH == Y_H(U, v_dash, r_dash)
        YR == minus(product(<<sgn(1000 + a_H), F_N, cos_rud(rud)>>))
        NH == N_H(U, v_dash, r_dash)
        x_H == times(sgn(x_H_dash), sgn(Lpp))
        NR == minus(product(<<plus("neg", times(sgn(a_H), x_H)), F_N, cos_rud(rud)>>))
        current == fl_vel # 0
        XC == IF current THEN "any" ELSE "zero"
        YC == IF current THEN "any" ELSE "zero"
        NC == IF current THEN "any" ELSE "zero"
        f == total(<<I_zG, J_z, times(squared(sgn(x_G)), mass)>>)
        inertial_u == <<product(<<plus(mass, m_y), sgn(v), sgn(r)>>),
                        product(<<sgn(x_G), mass, squared(sgn(r))>>)>>
        d_u == times(total(<<XH, XR, XP, XC>> \o inertial_u), plus(mass, m_x))
        \* (m + m_y) - x_G**2 * m**2 / f is positive: x_G**2 * m / f is below 1
        d_v == times(total(<<YH, YR, YC,
                             minus(product(<<plus(mass, m_x), sgn(u), sgn(r)>>)),
                             minus(product(<<sgn(x_G), mass, total(<<NH, NR, NC>>), f>>)),
                             product(<<squared(sgn(x_G)), squared(mass),
                                       sgn(u), sgn(r), f>>)>>),
                     "pos")
        d_r == times(plus(total(<<NH, NR, NC>>),
                          minus(plus(product(<<sgn(x_G), mass, d_v>>),
                                     product(<<sgn(x_G), mass, sgn(u), sgn(r)>>)))),
                     f)
        eta_dot == <<plus(times(cos_psi(psi), sgn(u)), minus(times(sin_psi(psi), sgn(v)))),
                     plus(times(sin_psi(psi), sgn(u)), times(cos_psi(psi), sgn(v))),
                     sgn(r)>>
        divisors == by_U \o by_nps \o by_J
    IN  [exc |-> IF \E i \in DOMAIN divisors : divisors[i] = "zero"
                 THEN "ZeroDivisionError"
                 ELSE IF root_arg = "neg" THEN "ValueError"
                 \* lines 276-283: self._C_X(g_rc) hands two arguments to a function
                 \* defined with one parameter (lines 104, 112, 119)
                 ELSE IF current THEN "TypeError"
                 ELSE "None",
         divisors |-> divisors,
         U |-> U, beta |-> beta, v_dash |-> v_dash, r_dash |-> r_dash, J |-> J,
         u_R |-> u_R, F_N |-> F_N,
         \* lines 192-199: which expression gave u_R
         u_R_from |-> IF J = 0 THEN "nps" ELSE "J",
         X |-> [H |-> XH, R |-> XR, P |-> XP, C |-> XC],
         Y |-> [H |-> YH, R |-> YR, C |-> YC],
         N |-> [H |-> NH, R |-> NR, C |-> NC],
         beta_P |-> beta_P, beta_R |-> beta_R, K_T |-> K_T,
         \* lines 296-297: the summands of d_u and what their sum is divided by
         d_u_of |-> quot(<<XH, XR, XP, XC>> \o inertial_u, "m + m_x"),
         eta_dot |-> eta_dot,
         nu_dot |-> <<d_u, d_v, d_r>>]

----------------------------------------------------------------------------
(* HHOS_Env as an object: the record e of its attributes.  attrs is the set of the *)
(* episode attributes assigned so far, order the sub-operations the last step     *)
(* call went through, calls the number of calls made on the object, before the    *)
(* vessel it held when the last call was made.                                    *)

\* an attribute wp1_*, wp2_* that has not been assigned yet
NoWp == [absent |-> TRUE]

\* the parameters of KVLCC2.__init__ besides self (MMG_KVLCC2.py, line 12)
KVLCC2_init_params == {"N_init", "E_init", "psi_init", "u_init", "v_init", "r_init",
                       "delta_t", "N_max", "E_max"}

\* the keyword arguments reset passes to KVLCC2 (lines 363-374)
reset_init_kwargs == {"N_init", "E_init", "psi_init", "u_init", "v_init", "r_init",
                      "delta_t", "N_max", "E_max", "nps", "full_ship", "cont_acts"}

\* the methods of KVLCC2 (MMG_KVLCC2.py)
KVLCC2_methods == {"__init__", "_T_of_psi", "_C_X", "_C_Y", "_C_N", "_vm_from_v_r",
                   "_mmg_dynamics", "_upd_dynamics", "_control", "_get_sideslip",
                   "_get_course", "_get_V", "_is_off_map"}

\* the fixed validation coordinate (56.635, 7.421), projected
ValidateStart == <<1, 0>>

\* the surge speed at force equilibrium for the propeller rate
get_u_from_nps == delta_t

\* squared distance between two points
dist2(aN, aE, bN, bE) == (aN - bN) * (aN - bN) + (aE - bE) * (aE - bE)

\* HHOS_Fnc.get_init_two_wp: the segment that starts at the waypoint nearest to the
\* position (the first such), the last segment if that is the last waypoint
get_init_two_wp(path, a_n, a_e) ==
    LET d(i)  == dist2(At(path.north, i), At(path.east, i), a_n, a_e)
        near  == CHOOSE i \in 0..(path.n_wps - 1) :
                    /\ \A j \in 0..(path.n_wps - 1) : d(i) <= d(j)
                    /\ \A j \in 0..(i - 1) : d(j) > d(i)
        idx   == IF near = path.n_wps - 1 THEN near - 1 ELSE near
    IN  [wp1_idx |-> idx,
         wp1_N   |-> At(path.north, idx),
         wp1_E   |-> At(path.east, idx),
         wp2_idx |-> idx + 1,
         wp2_N   |-> At(path.north, idx + 1),
         wp2_E   |-> At(path.east, idx + 1)]

\* the sub-operations of a step that runs to its end, in the order of lines 441-464
full_order == <<"control", "forcing", "integrate", "waypoints", "guidance", "sensor",
                "observation">>

\* HHOS_Env.reset on the object e: the object after the call, ret the outcome
reset_result(e) ==
    LET e1    == [e EXCEPT !.step_cnt = 0, !.sim_t = 0,
                           !.attrs = @ \cup {"step_cnt", "sim_t"}]
        start == IF e.mode = "train"
                 THEN <<At(e.DesiredPath.north, 0), At(e.DesiredPath.east, 0)>>
                 ELSE ValidateStart
        out(x) == [op |-> "reset", args |-> <<>>, exc |-> x]
    IN  IF ~binds(reset_init_kwargs, KVLCC2_init_params)
        THEN [e1 EXCEPT !.ret = out("TypeError")]
        ELSE LET os == KVLCC2(start[1], start[2], 0, <<0, 0, 0>>)
                 e2 == [e1 EXCEPT !.OS = os, !.attrs = @ \cup {"OS"}]
             IN  IF "_get_u_from_nps" \notin KVLCC2_methods
                 THEN [e2 EXCEPT !.ret = out("AttributeError")]
                 ELSE LET os3 == [os EXCEPT !.nu = <<get_u_from_nps, 0, 0>>]
                          w   == get_init_two_wp(e.DesiredPath, start[1], start[2])
                          st  == set_state_result(os3, w, e.DepthData)
                      IN  [e2 EXCEPT !.OS = os3, !.wp = w, !.state = st,
                                     !.state_init = st,
                                     !.attrs = @ \cup {"wp", "state", "state_init"},
                                     !.ret = out("None")]

\* a mutated _done: the episode is over once a call has been made on the object
done_after_call(e) == e.calls > 0

\* HHOS_Env._done (lines 492-495): d = False; return d
done_result(e) == FALSE

\* a mutated step: the wind sampled at the position is added to the surge speed
step_result_windage(e, a, y) ==
    LET out(x) == [op |-> "step", args |-> <<a>>, exc |-> x]
    IN  IF e.OS = NoOS
        THEN [e EXCEPT !.ret = out("AttributeError"), !.order = <<>>]
        ELSE IF ~valid_action(a)
        THEN [e EXCEPT !.ret = out("AssertionError"), !.order = <<>>]
        ELSE LET os1 == control_result(e.OS, a)
                 V_w == e.WindData[<<os1.eta[1], os1.eta[2]>>].speed
             IN  [e EXCEPT !.OS = [os1 EXCEPT !.nu[1] = @ + V_w],
                           !.ret = out("TypeError"),
                           !.order = <<"control", "forcing">>]

\* a mutated step: instead of the local H the depth field is zeroed
step_result_drops_depth(e, a, y) ==
    LET out(x) == [op |-> "step", args |-> <<a>>, exc |-> x]
    IN  IF e.OS = NoOS
        THEN [e EXCEPT !.ret = out("AttributeError"), !.order = <<>>]
        ELSE IF ~valid_action(a)
        THEN [e EXCEPT !.ret = out("AssertionError"), !.order = <<>>]
        ELSE [e EXCEPT !.OS = control_result(e.OS, a),
                       !.DepthData = [angle \in DOMAIN @ |-> [k \in DOMAIN @[angle] |-> 0]],
                       !.ret = out("TypeError"),
                       !.order = <<"control", "forcing">>]

\* HHOS_Env.step(a) on the object e, y what solve_ivp returns: the object after the
\* call, ret the outcome
step_result(e, a, y) ==
    LET out(x) == [op |-> "step", args |-> <<a>>, exc |-> x]
    IN  IF e.OS = NoOS
        THEN [e EXCEPT !.ret = out("AttributeError"), !.order = <<>>]
        ELSE IF ~valid_action(a)
        THEN [e EXCEPT !.ret = out("AssertionError"), !.order = <<>>]
        ELSE LET os1    == control_result(e.OS, a)
                 OS_pos == <<os1.eta[1], os1.eta[2]>>
                 V_c    == e.CurrentData[OS_pos]
                 V_w    == e.WindData[OS_pos]
                 H      == NoValue
             IN  IF ~binds(step_upd_kwargs, upd_dynamics_params)
                 THEN [e EXCEPT !.OS = os1,
                                !.ret = out("TypeError"),
                                !.order = <<"control", "forcing">>]
                 ELSE LET os2 == upd_dynamics_result(os1, y)
                          w   == update_wps_result(e.wp, e.DesiredPath, os2)
                          st  == set_state_result(os2, w, e.DepthData)
                      IN  [e EXCEPT !.OS = os2,
                                    !.wp = w,
                                    !.step_cnt = @ + 1,
                                    !.sim_t = @ + delta_t,
                                    !.state = st,
                                    \* line 467: return self.state, self.r, d, {}
                                    !.ret = [op |-> "step", args |-> <<a>>, exc |-> "None",
                                             value |-> <<st, e.r, done_result(e), {}>>],
                                    !.order = full_order]

\* one more call has been made on the object, which was e0 before
called(e, e0) == [e EXCEPT !.calls = @ + 1, !.before = e0.OS]

\* a mutated store: the vessel is assigned on the class, for all objects
step_on_class(es, i, a, y) ==
    LET r == called(step_result(es[i], a, y), es[i])
    IN  [j \in DOMAIN es |-> IF j = i THEN r ELSE [es[j] EXCEPT !.OS = r.OS]]

\* step(a) called on object i of the objects es: the assignments to self.* change
\* the attributes of that object
step_on(es, i, a, y) == [es EXCEPT ![i] = called(step_result(es[i], a, y), es[i])]

\* reset() called on object i of the objects es
reset_on(es, i) == [es EXCEPT ![i] = called(reset_result(es[i]), es[i])]

\* _done() called on object i of the objects es
done_on(es, i) ==
    [es EXCEPT ![i] = called([es[i] EXCEPT !.ret = [op |-> "_done", args |-> <<>>,
                                                    exc |-> "None",
                                                    value |-> done_result(es[i])]],
                             es[i])]

----------------------------------------------------------------------------
(* Operations *)

\* KVLCC2._control(a), called on the vessel
control(a) ==
    /\ OS # NoOS
    /\ IF ~valid_action(a)
       THEN /\ ret' = [op |-> "_control", args |-> <<a>>, exc |-> "AssertionError"]
            /\ UNCHANGED <<OS, trip>>
       ELSE /\ OS' = control_result(OS, a)
            /\ trip' = trip_next(trip, OS.rud_angle, a, OS'.rud_angle)
            /\ ret' = [op |-> "_control", args |-> <<a>>, exc |-> "None"]
    /\ UNCHANGED <<DesiredPath, DepthData, wps, step_cnt, sim_t, lidar, state, fl, untouched>>

\* KVLCC2._upd_dynamics(), called on the vessel; y is what solve_ivp returns
upd_dynamics ==
    /\ OS # NoOS
    /\ \E y \in SolverOutputs :
          /\ OS' = upd_dynamics_result(OS, y)
          /\ ret' = [op |-> "_upd_dynamics", args |-> <<y.psi>>, exc |-> "None"]
    /\ fl' = solver_args
    /\ UNCHANGED <<DesiredPath, DepthData, wps, step_cnt, sim_t, lidar, trip, state, untouched>>

\* HHOS_Env._update_wps()
update_wps ==
    /\ OS # NoOS
    /\ LET w == update_wps_result(WpRec, DesiredPath, OS)
       IN  /\ wp1_idx' = w.wp1_idx
           /\ wp1_N' = w.wp1_N
           /\ wp1_E' = w.wp1_E
           /\ wp2_idx' = w.wp2_idx
           /\ wp2_N' = w.wp2_N
           /\ wp2_E' = w.wp2_E
    /\ ret' = [op |-> "_update_wps", args |-> <<>>, exc |-> "None"]
    /\ UNCHANGED <<OS, DesiredPath, DepthData, step_cnt, sim_t, lidar, trip, state, fl, untouched>>

\* HHOS_Env._sense_LiDAR()
sense_LiDAR ==
    /\ OS # NoOS
    /\ lidar' = sense_LiDAR_result(OS, DepthData)
    /\ ret' = [op |-> "_sense_LiDAR", args |-> <<>>, exc |-> "None"]
    /\ UNCHANGED <<OS, DesiredPath, DepthData, wps, step_cnt, sim_t, trip, state, fl, untouched>>

\* HHOS_Env._set_state(), which calls _sense_LiDAR
set_state ==
    /\ OS # NoOS
    /\ lidar' = sense_LiDAR_result(OS, DepthData)
    /\ state' = set_state_result(OS, WpRec, DepthData)
    /\ ret' = [op |-> "_set_state", args |-> <<>>, exc |-> "None"]
    /\ UNCHANGED <<OS, DesiredPath, DepthData, wps, step_cnt, sim_t, trip, fl, untouched>>

\* HHOS_Env.step(a).  The control action is applied first; the position is converted
\* and the three fields are sampled (no effect on the state); then _upd_dynamics is
\* called with keyword arguments, which binds only if the method has such
\* parameters; then the waypoints, the counters and the sensor follow.
step(a) ==
    /\ UNCHANGED <<DesiredPath, DepthData, untouched>>
    /\ IF OS = NoOS
       THEN /\ ret' = [op |-> "step", args |-> <<a>>, exc |-> "AttributeError"]
            /\ UNCHANGED <<OS, wps, step_cnt, sim_t, lidar, trip, state, fl>>
       ELSE IF ~valid_action(a)
       THEN /\ ret' = [op |-> "step", args |-> <<a>>, exc |-> "AssertionError"]
            /\ UNCHANGED <<OS, wps, step_cnt, sim_t, lidar, trip, state, fl>>
       ELSE LET os1 == control_result(OS, a)
                t1  == trip_next(trip, OS.rud_angle, a, os1.rud_angle)
            IN  IF ~binds(step_upd_kwargs, upd_dynamics_params)
                THEN /\ OS' = os1
                     /\ trip' = t1
                     /\ ret' = [op |-> "step", args |-> <<a>>, exc |-> "TypeError"]
                     /\ UNCHANGED <<wps, step_cnt, sim_t, lidar, state, fl>>
                ELSE \E y \in SolverOutputs :
                        LET os2 == upd_dynamics_result(os1, y)
                            w   == update_wps_result(WpRec, DesiredPath, os2)
                        IN  /\ OS' = os2
                            /\ trip' = t1
                            /\ wp1_idx' = w.wp1_idx
                            /\ wp1_N' = w.wp1_N
                            /\ wp1_E' = w.wp1_E
                            /\ wp2_idx' = w.wp2_idx
                            /\ wp2_N' = w.wp2_N
                            /\ wp2_E' = w.wp2_E
                            /\ step_cnt' = step_cnt + 1
                            /\ sim_t' = sim_t + delta_t
                            /\ fl' = solver_args
                            /\ lidar' = sense_LiDAR_result(os2, DepthData)
                            /\ state' = set_state_result(os2, w, DepthData)
                            /\ ret' = [op |-> "step", args |-> <<a>>, exc |-> "None"]
\* one evaluation of KVLCC2._mmg_dynamics, on the arguments held in deriv
mmg_dynamics ==
    /\ OS # NoOS
    /\ deriv # NoValue
    /\ LET out == mmg_dynamics_result(OS.rud_angle, nps, deriv.y, deriv.fl.fl_psi,
                                      deriv.fl.fl_vel, deriv.reals)
       IN  /\ deriv' = [deriv EXCEPT !.out = out]
           /\ ret' = [op |-> "_mmg_dynamics", args |-> <<deriv.y, deriv.fl>>,
                      exc |-> out.exc]
    /\ UNCHANGED <<OS, DesiredPath, DepthData, wps, step_cnt, sim_t, lidar, trip,
                   state, fl, WindData, CurrentData, envs, nps>>

\* the attributes of the single environment and its vessel
single == <<OS, DesiredPath, DepthData, wps, step_cnt, sim_t, lidar, ret, trip, state, fl,
            WindData, CurrentData, nps, deriv>>

\* HHOS_Env.reset() called on object i
reset(i) ==
    /\ i \in DOMAIN envs
    /\ envs[i].calls < MaxCalls
    /\ envs' = reset_on(envs, i)
    /\ UNCHANGED single

\* HHOS_Env.step(a) called on object i
step_in(i, a) ==
    /\ i \in DOMAIN envs
    /\ envs[i].calls < MaxCalls
    /\ \E y \in SolverOutputs : envs' = step_on(envs, i, a, y)
    /\ UNCHANGED single

\* HHOS_Env._done() called on object i
done(i) ==
    /\ i \in DOMAIN envs
    /\ envs[i].calls < MaxCalls
    /\ envs' = done_on(envs, i)
    /\ UNCHANGED single

----------------------------------------------------------------------------
(* Initial states *)

\* all desired paths of 2..MaxWps waypoints on the grid
Paths ==
    UNION {[n_wps : {n}, north : [1..n -> Coords], east : [1..n -> Easts]] : n \in 2..MaxWps}

\* a straight path of two waypoints
StraightPath == [n_wps |-> 2, north |-> <<0, 1>>, east |-> <<0, 0>>]

\* depths around the grounding threshold
DepthVals == {sense_depth, sense_depth + 1}

\* water deeper than sense_depth everywhere
DeepWater == [angle \in 0..(TwoPi - 1) |-> [k \in 1..lidar_n_beams |-> sense_depth + 1]]

NoLidar == [dists |-> <<>>, lat_lon |-> <<>>]

\* the positions of the grid
Positions == Coords \X Easts

\* a field without wind or current
Calm == [p \in Positions |-> [speed |-> 0, angle |-> 0]]

\* a current that grows northwards and sets in the direction of one heading step
Stream == [p \in Positions |-> [speed |-> 1 + p[1], angle |-> 1]]

\* a wind that grows eastwards
Breeze == [p \in Positions |-> [speed |-> 2 + p[2], angle |-> 0]]

\* no second environment; wind and current as loaded; no observation assembled and
\* no integration done yet
InitFields ==
    /\ WindData = Breeze
    /\ CurrentData = Stream
    /\ envs = <<>>
    /\ state = NoValue
    /\ fl = NoValue
    /\ nps = nps_init
    /\ deriv = NoValue

Constructed == [op |-> "__init__", args |-> <<>>, exc |-> "None"]

\* the segment idx -> idx + 1 of a path, as reset stores it (lines 391-392)
InitWpsAt(path, idx) ==
    /\ wp1_idx = idx
    /\ wp1_N = At(path.north, idx)
    /\ wp1_E = At(path.east, idx)
    /\ wp2_idx = idx + 1
    /\ wp2_N = At(path.north, idx + 1)
    /\ wp2_E = At(path.east, idx + 1)

\* A vessel built by KVLCC2.__init__ (MMG_KVLCC2.py, line 12) from any inputs, held by
\* an environment whose episode attributes have the values reset assigns (lines
\* 355-392).  reset's own constructor call passes nps, full_ship and cont_acts, which
\* that constructor does not take; the methods below are modelled from the state
\* they read.
Init ==
    /\ \E n \in Coords, psi \in PsiRaw, nu \in NuVals :
          OS = KVLCC2(n, 0, psi, nu)
    /\ DesiredPath = StraightPath
    /\ DepthData = DeepWater
    /\ InitWpsAt(DesiredPath, 0)
    /\ step_cnt = 0
    /\ sim_t = 0
    /\ lidar = NoLidar
    /\ ret = Constructed
    /\ trip = FreshTrip(0)
    /\ InitFields

Next ==
    \/ \E a \in ActionInputs : control(a)
    \/ upd_dynamics
    \/ \E a \in ActionInputs : step(a)

Spec == Init /\ [][Next]_vars

\* any path, any of its segments as the active one, the vessel at any grid point
InitWps ==
    /\ \E n \in Coords, e \in Easts : OS = KVLCC2(n, e, 0, <<0, 0, 0>>)
    /\ DesiredPath \in Paths
    /\ DepthData = DeepWater
    /\ \E idx \in 0..(DesiredPath.n_wps - 2) : InitWpsAt(DesiredPath, idx)
    /\ step_cnt = 0
    /\ sim_t = 0
    /\ lidar = NoLidar
    /\ ret = Constructed
    /\ trip = FreshTrip(0)
    /\ InitFields

NextWps == update_wps

SpecWps == InitWps /\ [][NextWps]_vars

\* any depth field around the vessel, any normalised heading
InitLidar ==
    /\ \E psi \in 0..(TwoPi - 1) : OS = KVLCC2(0, 0, psi, <<0, 0, 0>>)
    /\ DesiredPath = StraightPath
    /\ DepthData \in [0..(TwoPi - 1) -> [1..lidar_n_beams -> DepthVals]]
    /\ InitWpsAt(DesiredPath, 0)
    /\ step_cnt = 0
    /\ sim_t = 0
    /\ lidar = NoLidar
    /\ ret = Constructed
    /\ trip = FreshTrip(0)
    /\ InitFields

NextLidar == sense_LiDAR

SpecLidar == InitLidar /\ [][NextLidar]_vars

\* deep water but for one shallow sample point
Shoal(angle, k) == [DeepWater EXCEPT ![angle][k] = sense_depth]

\* deep water everywhere, or everywhere but at one sample point
ShoalFields ==
    {DeepWater} \cup {Shoal(angle, k) : angle \in 0..(TwoPi - 1), k \in 1..lidar_n_beams}

\* a vessel that was steered and integrated once, on the first segment of the
\* straight path, in deep water or near one shoal
InitState ==
    /\ \E n \in Coords, nu \in NuVals, a \in range3, y \in SolverOutputs :
          OS = upd_dynamics_result(control_result(KVLCC2(n, 0, 0, nu), a), y)
    /\ DesiredPath = StraightPath
    /\ DepthData \in ShoalFields
    /\ InitWpsAt(DesiredPath, 0)
    /\ step_cnt = 0
    /\ sim_t = 0
    /\ lidar = NoLidar
    /\ ret = Constructed
    /\ trip = FreshTrip(0)
    /\ InitFields

NextState == set_state

SpecState == InitState /\ [][NextState]_vars

\* the two environment objects
Instances == {1, 2}

\* the actions tried on the objects: increase, decrease, and one invalid value
SomeActions == {1, 2, 3}

\* HHOS_Env.__init__: the attributes of a new object
NewEnv(mode, path, depth, wind, current) ==
    [mode        |-> mode,
     attrs       |-> {},
     OS          |-> NoOS,
     DesiredPath |-> path,
     DepthData   |-> depth,
     WindData    |-> wind,
     CurrentData |-> current,
     wp          |-> NoWp,
     step_cnt    |-> 0,
     sim_t       |-> 0,
     state       |-> NoValue,
     state_init  |-> NoValue,
     r           |-> 0,
     order       |-> <<>>,
     ret         |-> Constructed,
     calls       |-> 0,
     before      |-> NoOS]

\* an object that holds a vessel built by KVLCC2.__init__ at the start of its path,
\* its episode attributes as reset assigns them (lines 355-396)
Holding(e) ==
    LET os == KVLCC2(At(e.DesiredPath.north, 0), At(e.DesiredPath.east, 0), 0, <<0, 0, 0>>)
        w  == get_init_two_wp(e.DesiredPath, os.eta[1], os.eta[2])
        st == set_state_result(os, w, e.DepthData)
    IN  [e EXCEPT !.OS = os, !.wp = w, !.state = st, !.state_init = st,
                  !.attrs = {"step_cnt", "sim_t", "OS", "wp", "state", "state_init"}]

\* two objects on the same path and in the same current, both new or both holding a
\* vessel; wind and depth of the second one may differ from those of the first
InitEnvs ==
    /\ \E held \in BOOLEAN, mode \in {"train", "validate"},
          wind \in {Breeze, Calm}, depth \in {DeepWater, Shoal(0, 1)} :
          LET e1 == NewEnv(mode, StraightPath, DeepWater, Breeze, Stream)
              e2 == NewEnv(mode, StraightPath, depth, wind, Stream)
          IN  envs = [i \in Instances |->
                        IF held THEN Holding(IF i = 1 THEN e1 ELSE e2)
                        ELSE IF i = 1 THEN e1 ELSE e2]
    /\ OS = NoOS
    /\ DesiredPath = StraightPath
    /\ DepthData = DeepWater
    /\ InitWpsAt(DesiredPath, 0)
    /\ step_cnt = 0
    /\ sim_t = 0
    /\ lidar = NoLidar
    /\ ret = Constructed
    /\ trip = FreshTrip(0)
    /\ WindData = Breeze
    /\ CurrentData = Stream
    /\ state = NoValue
    /\ fl = NoValue
    /\ nps = nps_init
    /\ deriv = NoValue

NextEnvs ==
    \/ \E i \in Instances : reset(i)
    \/ \E i \in Instances, a \in SomeActions : step_in(i, a)

SpecEnvs == InitEnvs /\ [][NextEnvs]_vars

\* steps and tests of the end of the episode, on objects whose episode runs or has not
\* been started
NextRun ==
    \/ \E i \in Instances, a \in SomeActions : step_in(i, a)
    \/ \E i \in Instances : done(i)

SpecRun == InitEnvs /\ [][NextRun]_vars

\* velocities handed to the derivative, of either sign
DerivNu == (0 - MaxNu)..MaxNu

\* the arguments y of the derivative: at the origin, any heading step
DerivInputs == {<<0, 0, psi, u, v, r>> : psi \in 0..(TwoPi - 1), u \in DerivNu,
                                         v \in DerivNu, r \in 0 - 1..1}

\* math.exp(-C_1 * abs(beta_P)) for beta_P # 0, in tenths
ExpVals == {1, 9}

\* what the whole units of y leave open
Reals == [beta_P : {"neg", "pos"}, beta_R : {"neg", "pos"}, exp : ExpVals, J : {1, MaxJ}]

\* a vessel with some rudder angle, a propeller that turns or stands still, and the
\* arguments of one evaluation of the derivative, with the current of solver_args or
\* a current of speed 1
InitMmg ==
    /\ \E rud \in {0 - rud_angle_max, 0, rud_angle_max} :
          OS = [KVLCC2(0, 0, 0, <<0, 0, 0>>) EXCEPT !.rud_angle = rud]
    /\ nps \in {0, nps_init}
    /\ \E y \in DerivInputs, fl_vel \in {0, 1}, reals \in Reals :
          deriv = [y |-> y, fl |-> [solver_args EXCEPT !.fl_vel = fl_vel],
                   reals |-> reals, out |-> NoValue]
    /\ DesiredPath = StraightPath
    /\ DepthData = DeepWater
    /\ InitWpsAt(DesiredPath, 0)
    /\ step_cnt = 0
    /\ sim_t = 0
    /\ lidar = NoLidar
    /\ ret = Constructed
    /\ trip = FreshTrip(0)
    /\ WindData = Breeze
    /\ CurrentData = Stream
    /\ envs = <<>>
    /\ state = NoValue
    /\ fl = NoValue

NextMmg == mmg_dynamics

SpecMmg == InitMmg /\ [][NextMmg]_vars

----------------------------------------------------------------------------
(* Properties *)

\* pose, velocities, acceleration and rudder angle of the vessel
VesselState == <<OS.eta, OS.nu, OS.nu_dot, OS.rud_angle>>

\* C1: in every reachable state, after construction and after any sequence of
\* control actions, -rud_angle_max <= rud_angle <= rud_angle_max.
C1_RudderBounded ==
    /\ OS.rud_angle >= 0 - rud_angle_max
    /\ OS.rud_angle <= rud_angle_max

\* an increase has just been cut by the clip at +rud_angle_max
C1_Witness ==
    /\ ret = [op |-> "_control", args |-> <<1>>, exc |-> "None"]
    /\ trip.cut
    /\ OS.rud_angle = rud_angle_max

\* C2: after every completed _upd_dynamics, whatever heading was held before and
\* whatever heading the solver produced, the stored heading eta[2] is in [0, 2*pi).
C2_HeadingWrapped ==
    (ret.op = "_upd_dynamics" /\ ret.exc = "None") =>
        (OS.eta[3] >= 0 /\ OS.eta[3] < TwoPi)

\* the solver returned a negative heading, which was stored wrapped
C2_Witness ==
    /\ ret.op = "_upd_dynamics"
    /\ ret.args[1] < 0
    /\ OS.eta[3] = TwoPi - 1

\* C3: _control with action 0 leaves the rudder angle unchanged, with action 1 sets
\* it to clamp(old + inc) and with action 2 to clamp(old - inc), where inc is the
\* per-second increment times delta_t and clamp restricts to
\* [-rud_angle_max, rud_angle_max].
C3_ControlEffect ==
    [][(ret'.op = "_control" /\ ret'.exc = "None") =>
          LET a      == ret'.args[1]
              old    == OS.rud_angle
              inc    == rud_rate * delta_t
              target == IF a = 1 THEN old + inc ELSE old - inc
              clamp  == IF target > rud_angle_max THEN rud_angle_max
                        ELSE IF target < 0 - rud_angle_max THEN 0 - rud_angle_max
                        ELSE target
          IN  /\ a \in {0, 1, 2}
              /\ a = 0 => OS'.rud_angle = old
              /\ a # 0 => OS'.rud_angle = clamp
              /\ OS'.action = a]_vars

\* a decrease has just been clamped at -rud_angle_max from an angle above it
C3_Witness ==
    /\ ret = [op |-> "_control", args |-> <<2>>, exc |-> "None"]
    /\ trip.cut
    /\ OS.rud_angle = 0 - rud_angle_max
    /\ OS.action = 2

\* C4: a step or a _control call with an action outside {0,1,2} fails at once with
\* the assertion's error and leaves the rudder angle, the stored action, the pose and
\* velocities, the waypoint pair, the step counter and the simulated time unchanged.
C4_InvalidActionRejected ==
    [][(ret'.op \in {"step", "_control"} /\ ret'.args[1] \notin {0, 1, 2}) =>
          /\ ret'.exc = "AssertionError"
          /\ UNCHANGED <<OS, wps, step_cnt, sim_t>>]_vars

\* a step with action 3 has just been rejected while the rudder was deflected
C4_Witness ==
    /\ ret = [op |-> "step", args |-> <<3>>, exc |-> "AssertionError"]
    /\ OS.rud_angle # 0
    /\ OS.action # 0

\* C5: action 1 applied k times and then action 2 applied k times returns the rudder
\* angle to its starting value, provided no value in between was clamped.
C5_RoundTrip ==
    ((~trip.clamped) /\ trip.ups = trip.downs) => OS.rud_angle = trip.start

\* a run of two increases and two decreases without clamping has just ended
C5_Witness ==
    /\ ~trip.clamped
    /\ trip.ups = 2
    /\ trip.downs = 2
    /\ ret.op \in {"_control", "step"}

wp2_is_last == wp2_idx = DesiredPath.n_wps - 1

\* the position of the vessel is exactly wp2
at_wp2 == OS.eta[1] = wp2_N /\ OS.eta[2] = wp2_E

\* the pair has moved on by one waypoint: wp1 <- wp2, wp2 <- next waypoint of the path
advanced ==
    /\ wp1_N' = wp2_N
    /\ wp1_E' = wp2_E
    /\ wp1_idx' = wp2_idx
    /\ wp2_idx' = wp2_idx + 1
    /\ wp2_N' = At(DesiredPath.north, wp2_idx + 1)
    /\ wp2_E' = At(DesiredPath.east, wp2_idx + 1)

\* (position - wp1) . (wp2 - wp1): the along-track projection times the segment length
along_times_len ==
    (OS.eta[1] - wp1_N) * (wp2_N - wp1_N) + (OS.eta[2] - wp1_E) * (wp2_E - wp1_E)

\* the squared length of the segment wp1 -> wp2
len_squared ==
    (wp2_N - wp1_N) * (wp2_N - wp1_N) + (wp2_E - wp1_E) * (wp2_E - wp1_E)

\* C7: the pair advances (wp1 <- wp2, wp2 <- next waypoint) only when wp2 is not the
\* last waypoint; once wp2 is the last waypoint the pair and both indices stay
\* unchanged, whatever the position of the vessel.
C7_HeldAtLastWaypoint ==
    [][/\ wp2_is_last => UNCHANGED wps
       /\ (wps' # wps) => ((~wp2_is_last) /\ advanced)]_vars

\* the vessel is beyond the last waypoint and the update has left the pair alone
C7_Witness ==
    /\ ret.op = "_update_wps"
    /\ wp2_is_last
    /\ along_times_len > len_squared

bearing(i) == (i - 1 + OS.eta[3]) % TwoPi

\* the samples (1-based) on a bearing whose depth is at most sense_depth
hits(angle) == {k \in 1..lidar_n_beams : DepthData[angle][k] <= sense_depth}

\* the distance between two consecutive samples of a beam
sample_step == lidar_range \div lidar_n_beams

Min(S) == CHOOSE x \in S : \A y \in S : x <= y

\* C10: every beam reports the smallest sample distance whose depth is at most
\* sense_depth, with that sample's point, whatever the later samples hold; a beam
\* without such a sample reports lidar_range and the farthest sampled point; so an
\* obstacle that starts at distance d on beam 0 is reported less than one sample
\* step beyond d.
C10_FirstHit ==
    ret.op = "_sense_LiDAR" =>
        /\ Len(lidar.dists) = lidar_n_beams
        /\ Len(lidar.lat_lon) = lidar_n_beams
        /\ \A i \in 1..lidar_n_beams :
              LET h    == hits(bearing(i))
                  dist == IF h = {} THEN lidar_range ELSE Min(h) * sample_step
              IN  /\ lidar.dists[i] = dist
                  /\ lidar.lat_lon[i] = [angle |-> bearing(i), dist |-> dist]
        /\ \A d \in 1..lidar_range :
              (\A k \in 1..lidar_n_beams :
                  (DepthData[bearing(1)][k] <= sense_depth) <=> (k * sample_step >= d))
              => (lidar.dists[1] >= d /\ lidar.dists[1] - d < sample_step)

\* the sensor has run with an obstacle on beam 0 that starts between the first two
\* samples, no obstacle on beam 1, and on beam 2 a hit at the first sample with deeper
\* water behind it
C10_Witness ==
    /\ ret.op = "_sense_LiDAR"
    /\ hits(bearing(1)) = 2..lidar_n_beams
    /\ hits(bearing(2)) = {}
    /\ hits(bearing(3)) = {1}
    /\ lidar.dists[1] = 2 * sample_step
    /\ lidar.dists[2] = lidar_range
    /\ lidar.dists[3] = sample_step

\* every sample point of every beam is deeper than sense_depth
deep_everywhere ==
    \A angle \in 0..(TwoPi - 1) : \A k \in 1..lidar_n_beams :
        DepthData[angle][k] > sense_depth

\* C11: if the depth at every sampled point within the sensor's range is strictly
\* above the grounding threshold, every beam reports the distance lidar_range and
\* the closeness of every beam is 0.
C11_DeepFieldNoCloseness ==
    (ret.op = "_set_state" /\ deep_everywhere) =>
        /\ Len(lidar.dists) = lidar_n_beams
        /\ \A i \in 1..lidar_n_beams : lidar.dists[i] = lidar_range
        /\ Len(state) = 7 + lidar_n_beams
        /\ \A i \in 1..lidar_n_beams : state[7 + i] = 0

\* the observation has been assembled in deep water
C11_Witness ==
    /\ ret.op = "_set_state"
    /\ deep_everywhere
    /\ state # NoValue

call_on(i) == envs'[i].calls = envs[i].calls + 1

Idle(e) == e.OS = NoOS

\* the episode of an object is running: vessel, waypoint pair and observation exist
Running(e) == e.OS # NoOS /\ {"wp", "state"} \subseteq e.attrs

\* C14 as stated: reset takes an episode to Running; a step keeps a running episode
\* Running; a step in Idle fails and changes no state.
C14_Lifecycle ==
    [][\A i \in Instances :
          call_on(i) =>
              /\ envs'[i].ret.op = "reset" => Running(envs'[i])
              /\ (envs'[i].ret.op = "step" /\ Running(envs[i])) => Running(envs'[i])
              /\ (envs'[i].ret.op = "step" /\ Idle(envs[i])) =>
                    /\ envs'[i].ret.exc # "None"
                    /\ [envs'[i] EXCEPT !.ret = envs[i].ret, !.calls = envs[i].calls,
                                        !.before = envs[i].before] = envs[i]]_vars

\* the term of a guidance output for the present segment and position
guidance_term(name) ==
    [of |-> name, wp1 |-> <<wp1_N, wp1_E>>, wp2 |-> <<wp2_N, wp2_E>>,
     at |-> <<OS.eta[1], OS.eta[2]>>]

\* C15: the observation has exactly 7 + N entries, N the number of beams and 7 + N
\* the declared size of the observation space, in the order u/7.0, v/0.7, r/0.004,
\* yaw acceleration/8e-5, rudder angle/rud_angle_max, cross-track error/ship length,
\* desired course/pi, then the closeness of beam 0 to beam N-1; every entry is
\* computed from the vessel state, waypoint pair and depth field of the moment.
C15_ObservationLayout ==
    ret.op = "_set_state" =>
        /\ Len(state) = 7 + lidar_n_beams
        /\ obs_size = Len(state)
        /\ state[1] = [num |-> OS.nu[1], den |-> "7.0"]
        /\ state[2] = [num |-> OS.nu[2], den |-> "0.7"]
        /\ state[3] = [num |-> OS.nu[3], den |-> "0.004"]
        /\ state[4] = [num |-> OS.nu_dot[3], den |-> "8e-5"]
        /\ state[5] = [num |-> OS.rud_angle, den |-> rud_angle_max]
        /\ state[6] = [num |-> guidance_term("ye"), den |-> Lpp]
        /\ state[7] = [num |-> guidance_term("desired_course"), den |-> "math.pi"]
        /\ \A i \in 1..lidar_n_beams :
              /\ state[7 + i] >= 0
              /\ state[7 + i] <= 1000
              /\ state[7 + i] = 0 <=>
                    (hits(bearing(i)) = {} \/ Min(hits(bearing(i))) = lidar_n_beams)
              /\ \A j \in 1..lidar_n_beams :
                    (hits(bearing(i)) # {} /\ hits(bearing(j)) # {}
                        /\ Min(hits(bearing(i))) < Min(hits(bearing(j))))
                    => state[7 + i] > state[7 + j]

\* the observation has been assembled for a moving, turning vessel with the rudder
\* deflected and a shoal at the first sample of the last beam only
C15_Witness ==
    /\ ret.op = "_set_state"
    /\ OS.nu[1] # 0
    /\ OS.nu_dot[3] # 0
    /\ OS.rud_angle # 0
    /\ hits(bearing(lidar_n_beams)) = {1}
    /\ state[7 + lidar_n_beams] > 0
    /\ \A i \in 1..(lidar_n_beams - 1) : state[7 + i] = 0

\* C16: two steps made from the same vessel state with the same action and in the
\* same current, but in different wind and depth fields, leave the same vessel
\* state.
C16_WindDepthIndependence ==
    \A i \in Instances : \A j \in Instances :
        (/\ envs[i].ret.op = "step"
         /\ envs[j].ret.op = "step"
         /\ envs[i].ret.args = envs[j].ret.args
         /\ envs[i].before = envs[j].before
         /\ envs[i].CurrentData = envs[j].CurrentData)
        => envs[i].OS = envs[j].OS

\* both objects have made a step with action 1 from the same vessel state, in
\* different wind and over different depths
C16_Witness ==
    /\ envs[1].ret.op = "step"
    /\ envs[2].ret.op = "step"
    /\ envs[1].ret.args = <<1>>
    /\ envs[2].ret.args = <<1>>
    /\ envs[1].before # NoOS
    /\ envs[1].before = envs[2].before
    /\ envs[1].CurrentData = envs[2].CurrentData
    /\ envs[1].WindData # envs[2].WindData
    /\ envs[1].DepthData # envs[2].DepthData
    /\ envs[1].OS.rud_angle # envs[1].before.rud_angle
    /\ envs[1].OS = envs[2].OS

\* C17 as stated: the integration uses as its current forcing the speed and the
\* direction of the current field at the position the vessel holds when the
\* integration starts.
C17_CurrentForcingUsed ==
    [][(ret'.op = "_upd_dynamics" \/ (ret'.op = "step" /\ ret'.exc = "None")) =>
          LET here == CurrentData[<<OS.eta[1], OS.eta[2]>>]
          IN  fl' = [fl_psi |-> here.angle, fl_vel |-> here.speed]]_vars

\* C18: no step changes the depth, current or wind field or the desired path.
C18_FieldsImmutable ==
    [][\A i \in Instances :
          /\ envs'[i].DepthData = envs[i].DepthData
          /\ envs'[i].CurrentData = envs[i].CurrentData
          /\ envs'[i].WindData = envs[i].WindData
          /\ envs'[i].DesiredPath = envs[i].DesiredPath]_vars

\* a step has applied its control action and sampled the fields
C18_Witness ==
    \E i \in Instances :
        /\ envs[i].ret.op = "step"
        /\ envs[i].order = <<"control", "forcing">>
        /\ envs[i].OS.rud_angle # 0
        /\ envs[i].calls = 2

\* C19 as stated: reset completes from any state and leaves a fresh episode: step
\* counter 0, simulated time 0, a new vessel with rudder angle 0, sway velocity and
\* yaw rate 0, at the start position, an initialised waypoint pair and an initial
\* observation.
C19_ResetCompletes ==
    \A i \in Instances :
        envs[i].ret.op = "reset" =>
            /\ envs[i].ret.exc = "None"
            /\ envs[i].step_cnt = 0
            /\ envs[i].sim_t = 0
            /\ {"step_cnt", "sim_t", "wp", "state"} \subseteq envs[i].attrs
            /\ envs[i].OS # NoOS
            /\ envs[i].OS.rud_angle = 0
            /\ envs[i].OS.nu[2] = 0
            /\ envs[i].OS.nu[3] = 0
            /\ Len(envs[i].state) = 7 + lidar_n_beams

\* C20: a step or a reset on one environment object leaves every other object as it
\* was: vessel, waypoint pair and indices, step counter, simulated time and the rest
\* of its attributes.
C20_EpisodesIsolated ==
    [][\A i \in Instances : (~call_on(i)) => envs'[i] = envs[i]]_vars

\* object 1 has steered its vessel, object 2 has been reset since, and the vessel of
\* object 2 is as it was built
C20_Witness ==
    /\ envs[1].ret.op = "step"
    /\ envs[1].OS # NoOS
    /\ envs[1].OS.rud_angle # 0
    /\ envs[2].ret.op = "reset"
    /\ envs[2].calls = 1
    /\ envs[2].OS # NoOS
    /\ envs[2].OS.rud_angle = 0

\* the evaluation of the derivative the state holds has been carried out
evaluated == deriv # NoValue /\ deriv.out # NoValue

at_rest ==
    /\ evaluated
    /\ deriv.y[4] = 0 /\ deriv.y[5] = 0 /\ deriv.y[6] = 0
    /\ OS.rud_angle = 0
    /\ deriv.fl.fl_vel = 0

\* C22: at u = v = r = 0, rudder angle 0 and zero current the hull, rudder and current
\* terms of Y and N are 0 and the sway and yaw accelerations are 0; the hull, rudder
\* and current surge forces are 0, and the surge acceleration is X_P / (m + m_x).
C22_ZeroStateForces ==
    at_rest =>
        LET out == deriv.out
        IN  /\ out.exc = "None"
            /\ out.Y = [H |-> "zero", R |-> "zero", C |-> "zero"]
            /\ out.N = [H |-> "zero", R |-> "zero", C |-> "zero"]
            /\ out.nu_dot[2] = "zero" /\ out.nu_dot[3] = "zero"
            /\ out.X.H = "zero" /\ out.X.R = "zero" /\ out.X.C = "zero"
            /\ out.d_u_of = quot(<<"zero", "zero", out.X.P, "zero", "zero", "zero">>,
                                 "m + m_x")
            /\ out.nu_dot[1] = out.X.P

\* a vessel at rest with a turning propeller has been evaluated: the thrust is forward
C22_Witness ==
    /\ at_rest
    /\ nps = nps_init
    /\ deriv.out.X.P = "pos"
    /\ deriv.out.nu_dot = <<"pos", "zero", "zero">>

\* C23: every beam is made of n_dots_per_beam sample points, taken one after the other
\* at increasing distances, the last of which is lidar_range: the sensor takes
\* n_dots_per_beam depth samples on a beam, however many beams there are.
C23_SamplesPerBeam ==
    ret.op = "_sense_LiDAR" =>
        /\ Len(d_dots_per_beam) = n_dots_per_beam
        /\ d_dots_per_beam[Len(d_dots_per_beam)] = lidar_range
        /\ \A k \in 1..(Len(d_dots_per_beam) - 1) : d_dots_per_beam[k] < d_dots_per_beam[k + 1]
        /\ \A i \in 1..Len(lidar.dists) :
              \E k \in 1..n_dots_per_beam :
                  lidar.dists[i] * n_dots_per_beam = k * lidar_range

\* the indices name two consecutive waypoints of the path and wp2 is stored as the
\* path holds it
wp_in_range ==
    /\ 0 <= wp1_idx
    /\ wp2_idx = wp1_idx + 1
    /\ wp2_idx <= DesiredPath.n_wps - 1
    /\ wp2_N = At(DesiredPath.north, wp2_idx)
    /\ wp2_E = At(DesiredPath.east, wp2_idx)

\* C24: in every state the waypoint indices satisfy 0 <= wp1_idx, wp2_idx = wp1_idx + 1
\* and wp2_idx <= n_wps - 1, and the stored wp2 is the path's waypoint wp2_idx; from
\* one update to the next neither index decreases and each grows by at most 1.
C24_WaypointIndices ==
    /\ []wp_in_range
    /\ [][/\ wp1_idx' \in {wp1_idx, wp1_idx + 1}
          /\ wp2_idx' \in {wp2_idx, wp2_idx + 1}]_vars

\* the update has moved the pair on to the last segment of a path of three or more
\* waypoints
C24_Witness ==
    /\ ret.op = "_update_wps"
    /\ wp1_idx >= 1
    /\ wp2_idx = DesiredPath.n_wps - 1
    /\ along_times_len > len_squared

\* C25: for every pose and every depth field the sensor returns lidar_n_beams
\* distances and lidar_n_beams points, one of each per beam, in the order of the
\* beams: beam i lies i * 2*pi/lidar_n_beams from the heading, beam 0 along it; a
\* beam whose first hit is at the last sample gives one point, and so does a beam
\* without a hit.
C25_OnePointPerBeam ==
    ret.op = "_sense_LiDAR" =>
        /\ Len(lidar.dists) = lidar_n_beams
        /\ Len(lidar.lat_lon) = lidar_n_beams
        /\ DOMAIN lidar.lat_lon = 1..lidar_n_beams
        /\ \A i \in DOMAIN lidar.lat_lon :
              /\ lidar.lat_lon[i].angle = (OS.eta[3] + lidar_beam_angles[i]) % TwoPi
              /\ lidar.lat_lon[i].dist = lidar.dists[i]
        /\ lidar.lat_lon[1].angle = OS.eta[3] % TwoPi

\* the sensor has run, off the heading 0, with a beam whose only hit is at the last
\* sample and a beam without a hit
C25_Witness ==
    /\ ret.op = "_sense_LiDAR"
    /\ OS.eta[3] # 0
    /\ \E i, j \in 1..lidar_n_beams :
          /\ hits(bearing(i)) = {lidar_n_beams}
          /\ hits(bearing(j)) = {}
          /\ lidar.dists[i] = lidar_range
          /\ lidar.dists[j] = lidar_range

\* C26: every step that returns gives done = False and reward 0, whatever the state
\* and the action, and the test of the end of the episode never says the episode is
\* over: an episode that runs stays Running through any valid steps.
C26_NeverDone ==
    [][\A i \in Instances :
          call_on(i) =>
              /\ envs'[i].r = 0
              /\ envs'[i].ret.op = "_done" => envs'[i].ret.value = FALSE
              /\ (envs'[i].ret.op = "step" /\ envs'[i].ret.exc = "None") =>
                    (envs'[i].ret.value[2] = 0 /\ envs'[i].ret.value[3] = FALSE)
              /\ (Running(envs[i]) /\ (envs'[i].ret.op = "_done" \/
                      (envs'[i].ret.op = "step" /\ valid_action(envs'[i].ret.args[1])))) =>
                    Running(envs'[i])]_vars

\* on an object whose episode runs a valid step has been made and then the end of the
\* episode has been tested
C26_Witness ==
    \E i \in Instances :
        /\ Running(envs[i])
        /\ envs[i].calls = 2
        /\ envs[i].order = <<"control", "forcing">>
        /\ envs[i].ret.op = "_done"
        /\ envs[i].ret.value = FALSE
====
